---- MODULE Spec2Model ----
(***************************************************************************)
(* A model of the StyleTTS 2 web service (src/main.py): the POST /generate *)
(* handler and the pipeline it runs: parse_inputs,                         *)
(* prepare_reference_audio, execute_program, copy_output and clean_up,     *)
(* over the shared temporary folders and the audio cache.                  *)
(***************************************************************************)
EXTENDS Integers, Sequences, FiniteSets, TLC

VARIABLES
    maxInFlight,  \* how many requests the host runtime handles at a time
    nextId,       \* the number the next request to arrive gets
    pc,           \* pc[r]: where handler r stands in generate()
    req,          \* req[r]: the JSON body of the request handler r serves
    local,        \* local[r]: the handler's local variables
    hist,         \* hist[r]: what handler r has done for its request so far
    fs,           \* the files of the temporary folders: path -> audio
    cache,        \* the audio cache: <<stage, session, item>> -> audio
    stolen        \* files of a request in flight that another request's clean_up deleted

vars == <<maxInFlight, nextId, pc, req, local, hist, fs, cache, stolen>>

(***************************************************************************)
(* Bounds of the model.                                                    *)
(***************************************************************************)
\* the number of requests that arrive in one behaviour
MaxRequests == 2

\* the handlers of the host runtime (two suffice to interleave two requests)
Handlers == {1, 2}

(***************************************************************************)
(* JSON / Python values.  A value carries its type tag t, its number n     *)
(* (floats are counted in tenths: 0.5 is n = 5) and its text s.            *)
(***************************************************************************)
Missing == [t |-> "missing", n |-> 0, s |-> ""]

None == [t |-> "null", n |-> 0, s |-> ""]

PyStr(s) == [t |-> "string", n |-> 0, s |-> s]

PyBool(b) == [t |-> "boolean", n |-> IF b THEN 1 ELSE 0, s |-> ""]

PyInt(i) == [t |-> "integer", n |-> i, s |-> ""]

PyFloat(tenths) == [t |-> "float", n |-> tenths, s |-> ""]

\* Python's truth value of an object: None, "", False, 0 and 0.0 are false
Truthy(v) ==
    CASE v.t = "null" -> FALSE
      [] v.t = "missing" -> FALSE
      [] v.t = "string" -> v.s # ""
      [] OTHER -> v.n # 0

Digit(d) == <<"0", "1", "2", "3", "4", "5", "6", "7", "8", "9">>[d + 1]

RECURSIVE NatStr(_)
NatStr(n) == IF n < 10 THEN Digit(n) ELSE NatStr(n \div 10) \o Digit(n % 10)

IntStr(i) == IF i < 0 THEN "-" \o NatStr(-i) ELSE NatStr(i)

\* str(x) of Python for the values a request can carry
str(v) ==
    CASE v.t = "string" -> v.s
      [] v.t = "integer" -> IntStr(v.n)
      [] v.t = "float" ->
            IF v.n < 0
            THEN "-" \o NatStr((-v.n) \div 10) \o "." \o Digit((-v.n) % 10)
            ELSE NatStr(v.n \div 10) \o "." \o Digit(v.n % 10)
      [] v.t = "boolean" -> IF v.n = 1 THEN "True" ELSE "False"
      [] OTHER -> "None"

(***************************************************************************)
(* Paths and folders (src/main.py 15-31).                                  *)
(***************************************************************************)
ROOT_DIR == "~/hay_say"

join(dir, name) == dir \o "/" \o name

ARCHITECTURE_NAME == "styletts_2"

ARCHITECTURE_ROOT == join(ROOT_DIR, ARCHITECTURE_NAME)

INPUT_COPY_FOLDER == join(ARCHITECTURE_ROOT, "input")

OUTPUT_COPY_FOLDER == join(ARCHITECTURE_ROOT, "output")

TEMP_FILE_EXTENSION == ".wav"

WEIGHTS_FILE_EXTENSION == ".pth"

CONFIG_FILE_EXTENSION == ".yml"

CONFIG_FILE_EXTENSION_ALT == ".yaml"

STYLE_FILE_EXTENSION == ".json"

(***************************************************************************)
(* The request body of POST /generate and its schema (src/main.py 72-104). *)
(* A body is a record of the fourteen values the handler reads; a key the  *)
(* body does not hold is Missing.                                          *)
(***************************************************************************)
Fields ==
    {"UserText", "UserAudio", "Character", "Noise", "StyleBlend", "DiffusionSteps",
     "EmbeddingScale", "UseLongForm", "EnableReferenceAudio", "TimbreReferenceBlend",
     "ProsodyReferenceBlend", "OutputFile", "GPUID", "SessionID"}

NoLimit == [has |-> FALSE, tenths |-> 0]

Limit(tenths) == [has |-> TRUE, tenths |-> tenths]

Property(types, minimum, maximum, required) ==
    [types |-> types, minimum |-> minimum, maximum |-> maximum, required |-> required]

schema ==
    [UserText |-> Property({"string"}, NoLimit, NoLimit, TRUE),
     UserAudio |-> Property({"string", "null"}, NoLimit, NoLimit, FALSE),
     Character |-> Property({"string"}, NoLimit, NoLimit, TRUE),
     Noise |-> Property({"number"}, NoLimit, NoLimit, TRUE),
     StyleBlend |-> Property({"number"}, Limit(0), Limit(10), TRUE),
     DiffusionSteps |-> Property({"integer"}, Limit(10), NoLimit, TRUE),
     EmbeddingScale |-> Property({"number"}, NoLimit, NoLimit, TRUE),
     UseLongForm |-> Property({"boolean"}, NoLimit, NoLimit, TRUE),
     EnableReferenceAudio |-> Property({"boolean"}, NoLimit, NoLimit, FALSE),
     TimbreReferenceBlend |-> Property({"number"}, Limit(0), Limit(10), FALSE),
     ProsodyReferenceBlend |-> Property({"number"}, Limit(0), Limit(10), FALSE),
     OutputFile |-> Property({"string"}, NoLimit, NoLimit, TRUE),
     GPUID |-> Property({"string", "integer"}, NoLimit, NoLimit, TRUE),
     SessionID |-> Property({"string", "null"}, NoLimit, NoLimit, TRUE)]

\* the value of a number in tenths
Tenths(v) == IF v.t = "float" THEN v.n ELSE 10 * v.n

IsNumber(v) == v.t \in {"integer", "float"}

\* jsonschema's type check: a boolean is no number, a float without a fraction is an integer
IsType(v, type) ==
    CASE type = "number" -> IsNumber(v)
      [] type = "integer" -> v.t = "integer" \/ (v.t = "float" /\ v.n % 10 = 0)
      [] OTHER -> v.t = type

\* Violates with the limits of the schema left out: only the types are checked
Violates_TypesOnly(body, f) ==
    LET v == body[f]
        p == schema[f]
    IN  IF v = Missing
        THEN p.required
        ELSE \A type \in p.types : ~IsType(v, type)

\* whether the body's value of a field violates the schema
Violates(body, f) ==
    LET v == body[f]
        p == schema[f]
    IN  IF v = Missing
        THEN p.required
        ELSE \/ \A type \in p.types : ~IsType(v, type)
             \/ IsNumber(v) /\ p.minimum.has /\ Tenths(v) < p.minimum.tenths
             \/ IsNumber(v) /\ p.maximum.has /\ Tenths(v) > p.maximum.tenths

\* jsonschema.validate(instance=request.json, schema=schema) raises no ValidationError
validate(body) == \A f \in Fields : ~Violates(body, f)

\* parse_inputs: what it raises ("none" when it returns its tuple).  After the
\* validation it subscripts all fourteen keys, the optional ones too.
parse_inputs(body) ==
    IF ~validate(body) THEN "BadInputException"
    ELSE IF \E f \in Fields : body[f] = Missing THEN "KeyError"
    ELSE "none"

(***************************************************************************)
(* The request bodies clients send.                                        *)
(***************************************************************************)
\* the values a client gives each key
FieldValues ==
    [UserText |-> {Missing, PyStr(""), PyStr("hello")},
     UserAudio |-> {Missing, None, PyStr("ref1")},
     Character |-> {PyStr("voiceA"), PyStr("voiceS"), PyStr("voiceTwoW"), PyStr("voiceNoW")},
     Noise |-> {PyFloat(5), PyStr("loud")},
     StyleBlend |-> {PyFloat(3), PyFloat(15)},
     DiffusionSteps |-> {PyInt(5), PyInt(0)},
     EmbeddingScale |-> {PyFloat(10)},
     UseLongForm |-> {PyBool(TRUE), PyBool(FALSE)},
     EnableReferenceAudio |-> {Missing, PyBool(TRUE), PyBool(FALSE)},
     TimbreReferenceBlend |-> {Missing, PyFloat(5)},
     ProsodyReferenceBlend |-> {Missing, PyFloat(5)},
     OutputFile |-> {PyStr("out1"), PyStr("out2")},
     GPUID |-> {PyStr("0")},
     SessionID |-> {PyStr("s1"), None}]

Bodies ==
    [UserText : FieldValues.UserText, UserAudio : FieldValues.UserAudio,
     Character : FieldValues.Character, Noise : FieldValues.Noise,
     StyleBlend : FieldValues.StyleBlend, DiffusionSteps : FieldValues.DiffusionSteps,
     EmbeddingScale : FieldValues.EmbeddingScale, UseLongForm : FieldValues.UseLongForm,
     EnableReferenceAudio : FieldValues.EnableReferenceAudio,
     TimbreReferenceBlend : FieldValues.TimbreReferenceBlend,
     ProsodyReferenceBlend : FieldValues.ProsodyReferenceBlend,
     OutputFile : FieldValues.OutputFile, GPUID : FieldValues.GPUID,
     SessionID : FieldValues.SessionID]

\* the keys the schema does not require
Optional == {f \in Fields : ~schema[f].required}

\* The bodies clients send: at most one key violates the schema, and a client
\* sends either all the optional keys or none of them.
Sent(b) ==
    /\ Cardinality({f \in Fields : Violates(b, f)}) <= 1
    /\ \/ \A f \in Optional : b[f] = Missing
       \/ \A f \in Optional : b[f] # Missing

Requests == {b : b \in {x \in Bodies : Sent(x)}}

\* with two requests in flight: the bodies that pass parse_inputs and name the
\* reference audio, with one text, voice and session
Concurrent(b) ==
    /\ parse_inputs(b) = "none"
    /\ b.UserText = PyStr("hello")
    /\ b.UserAudio = PyStr("ref1")
    /\ b.Character = PyStr("voiceA")
    /\ b.UseLongForm = PyBool(FALSE)
    /\ b.SessionID = PyStr("s1")

ConcurrentRequests == {b : b \in {x \in Requests : Concurrent(x)}}

RequestsOf(inFlight) == IF inFlight = 1 THEN Requests ELSE ConcurrentRequests

(***************************************************************************)
(* The voice directories (read only): the files of each character's folder *)
(* as <<stem, extension>> pairs.                                           *)
(***************************************************************************)
File(stem, ext) == [stem |-> stem, ext |-> ext]

VoiceDirs ==
    [voiceA |-> <<File("a", ".pth"), File("config", ".yml")>>,
     voiceS |-> <<File("s", ".pth"), File("config", ".yaml"), File("style", ".json"),
                  File("style2", ".json")>>,
     voiceTwoW |-> <<File("e100", ".pth"), File("e200", ".pth"), File("config", ".yml"),
                     File("style", ".json")>>,
     voiceNoW |-> <<File("config", ".yaml")>>]

character_dir(architecture, character) ==
    join(join(join(join(ROOT_DIR, "models"), architecture), "characters"), character)

\* hsc.get_files_with_extension: the paths of the folder's files with the extension
get_files_with_extension(character, extension) ==
    LET files == SelectSeq(VoiceDirs[character], LAMBDA f : f.ext = extension)
    IN  [i \in 1..Len(files) |->
            join(character_dir(ARCHITECTURE_NAME, character), files[i].stem \o files[i].ext)]

\* get_single_file_with_extension that takes the first of several files
get_first_file_with_extension(character, extension) ==
    LET files == get_files_with_extension(character, extension)
    IN  IF Len(files) >= 1
        THEN [raised |-> FALSE, path |-> files[1]]
        ELSE [raised |-> TRUE, path |-> ""]

\* hsc.get_single_file_with_extension: raises unless exactly one file has the extension
get_single_file_with_extension(character, extension) ==
    LET files == get_files_with_extension(character, extension)
    IN  IF Len(files) = 1
        THEN [raised |-> FALSE, path |-> files[1]]
        ELSE [raised |-> TRUE, path |-> ""]

get_config_file(character) ==
    LET first == get_single_file_with_extension(character, CONFIG_FILE_EXTENSION)
    IN  IF first.raised
        THEN get_single_file_with_extension(character, CONFIG_FILE_EXTENSION_ALT)
        ELSE first

get_style_file(character) ==
    LET style_file == get_files_with_extension(character, STYLE_FILE_EXTENSION)
    IN  IF Len(style_file) > 0 THEN PyStr(style_file[1]) ELSE None

(***************************************************************************)
(* execute_program's argument list (src/main.py 167-184).                  *)
(***************************************************************************)
Flag(name, value, present) == IF present THEN <<PyStr(name), value>> ELSE <<None, None>>

\* line 171: the value of --output_filepath
OutputArgument(output_filename_sans_extension) ==
    join(OUTPUT_COPY_FOLDER, output_filename_sans_extension \o TEMP_FILE_EXTENSION)

ReferenceAudioFlag(reference_audio, enable_reference_audio) ==
    Flag("--reference_audio", reference_audio, Truthy(enable_reference_audio))

\* the style flag passed whenever the voice has a style file
ReferenceStyleFlag_Always(style_file, enable_reference_audio) ==
    Flag("--reference_style", style_file, Truthy(style_file))

ReferenceStyleFlag(style_file, enable_reference_audio) ==
    Flag("--reference_style", style_file, Truthy(style_file) /\ ~Truthy(enable_reference_audio))

\* the list of lines 167-183, None objects included
RawArguments(b, reference_audio, weights_file, config_file, style_file) ==
    <<PyStr("--text"), b.UserText,
      PyStr("--weights_file"), PyStr(weights_file),
      PyStr("--config_file"), PyStr(config_file),
      PyStr("--output_filepath"), PyStr(OutputArgument(b.OutputFile.s))>>
    \o Flag("--noise", PyStr(str(b.Noise)), b.Noise # None)
    \o Flag("--style_blend", PyStr(str(b.StyleBlend)), b.StyleBlend # None)
    \o Flag("--diffusion_steps", PyStr(str(b.DiffusionSteps)), b.DiffusionSteps # None)
    \o Flag("--embedding_scale", PyStr(str(b.EmbeddingScale)), b.EmbeddingScale # None)
    \o Flag("--embedding_scale", PyStr(str(b.EmbeddingScale)), b.EmbeddingScale # None)
    \o (IF Truthy(b.UseLongForm) THEN <<PyStr("--use_long_form")>> ELSE <<None>>)
    \o ReferenceAudioFlag(reference_audio, b.EnableReferenceAudio)
    \o ReferenceStyleFlag(style_file, b.EnableReferenceAudio)
    \o Flag("--timbre_ref_blend", PyStr(str(b.TimbreReferenceBlend)),
            b.TimbreReferenceBlend # None)
    \o Flag("--prosody_ref_blend", PyStr(str(b.ProsodyReferenceBlend)),
            b.ProsodyReferenceBlend # None)

\* line 184: [argument for argument in arguments if argument]
FilterArguments(arguments) ==
    LET kept == SelectSeq(arguments, Truthy)
    IN  [i \in 1..Len(kept) |-> kept[i].s]

Arguments(b, reference_audio, weights_file, config_file, style_file) ==
    FilterArguments(RawArguments(b, reference_audio, weights_file, config_file, style_file))

\* the positions of a flag in an argument list
Positions(argv, flag) == {i \in 1..Len(argv) : argv[i] = flag}

\* where the inference script writes its audio: the value of --output_filepath
OutputPathOf(argv) ==
    LET at == Positions(argv, "--output_filepath")
    IN  IF at = {} \/ (CHOOSE i \in at : TRUE) = Len(argv)
        THEN ""
        ELSE argv[(CHOOSE i \in at : TRUE) + 1]

(***************************************************************************)
(* The temporary folders, the cache and the response message.              *)
(***************************************************************************)
\* the names a file of the temporary folders can have
FileNames ==
    {v.s \o TEMP_FILE_EXTENSION :
        v \in {x \in FieldValues.OutputFile \cup FieldValues.UserAudio : x.t = "string"}}

listdir(files, folder) == {join(folder, name) : name \in {n \in FileNames : join(folder, n) \in DOMAIN files}}

\* get_temp_files: every file of the output folder and of the input folder
get_temp_files(files) == listdir(files, OUTPUT_COPY_FOLDER) \cup listdir(files, INPUT_COPY_FOLDER)

\* the folders without the given paths
Remove(files, paths) == [p \in DOMAIN files \ paths |-> files[p]]

\* audio: what the inference script of request id wrote, or what the cache held
ProcessAudio(id) == [made |-> "inference", id |-> id]

CachedAudio(item) == [made |-> item, id |-> 0]

Key(stage, session_id, item) == <<stage, session_id, item>>

Base64Alphabet ==
    <<"A", "B", "C", "D", "E", "F", "G", "H", "I", "J", "K", "L", "M", "N", "O", "P",
      "Q", "R", "S", "T", "U", "V", "W", "X", "Y", "Z", "a", "b", "c", "d", "e", "f",
      "g", "h", "i", "j", "k", "l", "m", "n", "o", "p", "q", "r", "s", "t", "u", "v",
      "w", "x", "y", "z", "0", "1", "2", "3", "4", "5", "6", "7", "8", "9", "+", "/">>

Sextet(n) == Base64Alphabet[(n % 64) + 1]

\* base64.b64encode of a sequence of bytes, as text
RECURSIVE b64encode(_)
b64encode(bytes) ==
    IF Len(bytes) = 0 THEN ""
    ELSE IF Len(bytes) = 1
    THEN Sextet(bytes[1] \div 4) \o Sextet((bytes[1] % 4) * 16) \o "=="
    ELSE IF Len(bytes) = 2
    THEN Sextet(bytes[1] \div 4) \o Sextet((bytes[1] % 4) * 16 + bytes[2] \div 16)
         \o Sextet((bytes[2] % 16) * 4) \o "="
    ELSE Sextet(bytes[1] \div 4) \o Sextet((bytes[1] % 4) * 16 + bytes[2] \div 16)
         \o Sextet((bytes[2] % 16) * 4 + bytes[3] \div 64) \o Sextet(bytes[3])
         \o b64encode(SubSeq(bytes, 4, Len(bytes)))

\* traceback.format_exc(): text that starts "Traceback"
format_exc == <<84, 114>>

\* hsc.construct_full_error_message: an error text that lists the temporary files
construct_full_error_message(temp_files) ==
    <<65, 110>> \o [i \in 1..Cardinality(temp_files) |-> 10]

\* lines 52-54 and 60-65: a BadInputException ends the request with 400
BadInputResponse(l) == [l EXCEPT !.code = 400, !.message = b64encode(format_exc)]

\* lines 55-57 and 60-65: any other exception ends it with 500; the temporary
\* files are listed in the message and stay where they are
ExceptionResponse(l, files) ==
    [l EXCEPT !.code = 500,
              !.message = b64encode(construct_full_error_message(get_temp_files(files)))]

\* lines 39-40, 51 and 60-65: the try block ran to its end
OkResponse(l) == [l EXCEPT !.message = b64encode(<< >>)]

NoLocals == [reference_audio |-> None, code |-> 200, message |-> ""]

NoHistory ==
    [id |-> 0, fault |-> "none", step |-> "none", launches |-> << >>, procWrote |-> FALSE,
     cacheReads |-> 0, cacheWrites |-> << >>, created |-> {}]

NoRequest == [f \in Fields |-> Missing]

InFlight(r) == pc[r] \notin {"idle", "done"}

Init ==
    /\ maxInFlight = 1
    /\ nextId = 1
    /\ pc = [r \in Handlers |-> "idle"]
    /\ req = [r \in Handlers |-> NoRequest]
    /\ local = [r \in Handlers |-> NoLocals]
    /\ hist = [r \in Handlers |-> NoHistory]
    /\ fs = << >>
    /\ cache = (Key("PREPROCESSED", PyStr("s1"), "ref1") :> CachedAudio("ref1"))
    /\ stolen = {}

\* the try block of generate() left by an exception that is no BadInputException
Raise(r, step, fault, files) ==
    /\ pc' = [pc EXCEPT ![r] = "done"]
    /\ local' = [local EXCEPT ![r] = ExceptionResponse(@, files)]
    /\ hist' = [hist EXCEPT ![r].step = step, ![r].fault = fault]

(***************************************************************************)
(* generate(), lines 39-44: a request arrives and parse_inputs runs.       *)
(***************************************************************************)
ParseInputs(r) ==
    /\ r <= maxInFlight
    /\ pc[r] = "idle"
    /\ nextId <= MaxRequests
    /\ \E body \in RequestsOf(maxInFlight) :
        /\ req' = [req EXCEPT ![r] = body]
        /\ nextId' = nextId + 1
        /\ LET raised == parse_inputs(body)
               h == [NoHistory EXCEPT !.id = nextId, !.step = "parse_inputs"]
           IN  /\ hist' = [hist EXCEPT ![r] = h]
               /\ CASE raised = "BadInputException" ->
                        /\ pc' = [pc EXCEPT ![r] = "done"]
                        /\ local' = [local EXCEPT ![r] = BadInputResponse(NoLocals)]
                    [] raised = "KeyError" ->
                        /\ pc' = [pc EXCEPT ![r] = "done"]
                        /\ local' = [local EXCEPT ![r] = ExceptionResponse(NoLocals, fs)]
                    [] OTHER ->
                        /\ pc' = [pc EXCEPT ![r] = "prepare_reference_audio"]
                        /\ local' = [local EXCEPT ![r] = NoLocals]
    /\ UNCHANGED <<maxInFlight, fs, cache, stolen>>

(***************************************************************************)
(* prepare_reference_audio, lines 135-146.                                 *)
(***************************************************************************)
ReferenceTarget(input_hash) == join(INPUT_COPY_FOLDER, input_hash \o TEMP_FILE_EXTENSION)

\* line 137: no reference audio is prepared
NoReference(enable_reference_audio, input_hash) ==
    ~Truthy(enable_reference_audio) \/ input_hash = None

PrepareReferenceAudio(r) ==
    /\ pc[r] = "prepare_reference_audio"
    /\ LET b == req[r]
           target == ReferenceTarget(b.UserAudio.s)
           key == Key("PREPROCESSED", b.SessionID, b.UserAudio.s)
       IN  IF NoReference(b.EnableReferenceAudio, b.UserAudio)
           THEN /\ pc' = [pc EXCEPT ![r] = "execute_program"]
                /\ local' = [local EXCEPT ![r].reference_audio = None]
                /\ hist' = [hist EXCEPT ![r].step = "prepare_reference_audio"]
                /\ UNCHANGED fs
           ELSE \E outcome \in {"ok", "read_audio_from_cache", "soundfile.write"} :
                  LET h == [hist[r] EXCEPT !.cacheReads = @ + 1]
                  IN  IF outcome = "ok" /\ key \in DOMAIN cache
                      THEN /\ fs' = (target :> cache[key]) @@ fs
                           /\ pc' = [pc EXCEPT ![r] = "execute_program"]
                           /\ local' = [local EXCEPT ![r].reference_audio = PyStr(target)]
                           /\ hist' = [hist EXCEPT ![r] =
                                        [h EXCEPT !.step = "prepare_reference_audio",
                                                  !.created = @ \cup {target}]]
                      ELSE /\ (outcome = "soundfile.write" => key \in DOMAIN cache)
                           /\ pc' = [pc EXCEPT ![r] = "done"]
                           /\ local' = [local EXCEPT ![r] = ExceptionResponse(@, fs)]
                           /\ hist' = [hist EXCEPT ![r] =
                                        [h EXCEPT !.step = "prepare_reference_audio",
                                                  !.fault = IF outcome = "ok" THEN "none" ELSE outcome]]
                           /\ UNCHANGED fs
    /\ UNCHANGED <<maxInFlight, nextId, req, cache, stolen>>

(***************************************************************************)
(* execute_program, lines 161-186: the voice's files are resolved, the     *)
(* arguments built, and the inference script runs to its end.              *)
(***************************************************************************)
ExecuteProgram(r) ==
    /\ pc[r] = "execute_program"
    /\ LET b == req[r]
           character == b.Character.s
           config_file == get_config_file(character)
           style_file == get_style_file(character)
           weights_file == get_single_file_with_extension(character, WEIGHTS_FILE_EXTENSION)
           arguments == Arguments(b, local[r].reference_audio, weights_file.path,
                                  config_file.path, style_file)
       IN  IF config_file.raised \/ weights_file.raised
           THEN /\ Raise(r, "execute_program", "none", fs)
                /\ UNCHANGED fs
           ELSE \E outcome \in {"subprocess.run", "no output", "output"} :
                  IF outcome = "subprocess.run"
                  THEN /\ Raise(r, "execute_program", outcome, fs)
                       /\ UNCHANGED fs
                  ELSE /\ pc' = [pc EXCEPT ![r] = "copy_output"]
                       /\ hist' = [hist EXCEPT ![r].step = "execute_program",
                                               ![r].launches = Append(@, arguments),
                                               ![r].procWrote = (outcome = "output")]
                       /\ fs' = IF outcome = "output"
                                THEN (OutputPathOf(arguments) :> ProcessAudio(hist[r].id)) @@ fs
                                ELSE fs
                       /\ UNCHANGED local
    /\ UNCHANGED <<maxInFlight, nextId, req, cache, stolen>>

(***************************************************************************)
(* copy_output, lines 189-192.                                             *)
(***************************************************************************)
\* the output file looked for without its extension
OutputFilePath_NoExtension(output_filename_sans_extension) ==
    join(OUTPUT_COPY_FOLDER, output_filename_sans_extension)

\* lines 190-191: the file copy_output reads
OutputFilePath(output_filename_sans_extension) ==
    join(OUTPUT_COPY_FOLDER, output_filename_sans_extension \o TEMP_FILE_EXTENSION)

\* the audio saved under the name of the file, extension included
OutputKey_FileName(session_id, output_filename_sans_extension) ==
    Key("OUTPUT", session_id, output_filename_sans_extension \o TEMP_FILE_EXTENSION)

\* line 192: where the audio is saved
OutputKey(session_id, output_filename_sans_extension) ==
    Key("OUTPUT", session_id, output_filename_sans_extension)

CopyOutput(r) ==
    /\ pc[r] = "copy_output"
    /\ LET b == req[r]
           path == OutputFilePath(b.OutputFile.s)
       IN  IF path \notin DOMAIN fs
           THEN /\ Raise(r, "copy_output", "none", fs)
                /\ UNCHANGED cache
           ELSE \E outcome \in {"ok", "read_audio", "save_audio_to_cache"} :
                  IF outcome = "ok"
                  THEN /\ cache' = (OutputKey(b.SessionID, b.OutputFile.s) :> fs[path]) @@ cache
                       /\ pc' = [pc EXCEPT ![r] = "clean_up"]
                       /\ hist' = [hist EXCEPT ![r].step = "copy_output",
                                               ![r].cacheWrites = Append(@,
                                                    [key |-> OutputKey(b.SessionID, b.OutputFile.s),
                                                     audio |-> fs[path]])]
                       /\ UNCHANGED local
                  ELSE /\ Raise(r, "copy_output", outcome, fs)
                       /\ UNCHANGED cache
    /\ UNCHANGED <<maxInFlight, nextId, req, fs, stolen>>

(***************************************************************************)
(* hsc.clean_up(get_temp_files()), line 51, and the response.              *)
(***************************************************************************)
\* whether handler q's request is in flight and holds the file: its reference
\* audio, or the output its inference script wrote
Holds(q, p) ==
    /\ InFlight(q)
    /\ \/ p \in hist[q].created
       \/ /\ hist[q].procWrote
          /\ p = OutputPathOf(hist[q].launches[Len(hist[q].launches)])

\* the files among paths that a request in flight other than r's holds
Theft(r, paths) ==
    {[path |-> x[1], owner |-> hist[x[2]].id, by |-> hist[r].id] :
        x \in {y \in paths \X (Handlers \ {r}) : Holds(y[2], y[1])}}

CleanUp(r) ==
    /\ pc[r] = "clean_up"
    /\ LET files == get_temp_files(fs)
       IN  \E kept \in SUBSET files :
             /\ fs' = Remove(fs, files \ kept)
             /\ stolen' = stolen \cup Theft(r, files \ kept)
             /\ IF kept = {}
                THEN /\ pc' = [pc EXCEPT ![r] = "done"]
                     /\ local' = [local EXCEPT ![r] = OkResponse(@)]
                     /\ hist' = [hist EXCEPT ![r].step = "clean_up"]
                ELSE Raise(r, "clean_up", "clean_up", fs')
    /\ UNCHANGED <<maxInFlight, nextId, req, cache>>

\* line 65: generate() returns the response and the handler is free again
Return(r) ==
    /\ pc[r] = "done"
    /\ pc' = [pc EXCEPT ![r] = "idle"]
    /\ req' = [req EXCEPT ![r] = NoRequest]
    /\ local' = [local EXCEPT ![r] = NoLocals]
    /\ hist' = [hist EXCEPT ![r] = NoHistory]
    /\ UNCHANGED <<maxInFlight, nextId, fs, cache, stolen>>

Next ==
    \E r \in Handlers :
        \/ ParseInputs(r)
        \/ Return(r)
        \/ PrepareReferenceAudio(r)
        \/ ExecuteProgram(r)
        \/ CopyOutput(r)
        \/ CleanUp(r)

Spec == Init /\ [][Next]_vars

\* two requests in flight at a time
InitConcurrent ==
    /\ maxInFlight = 2
    /\ nextId = 1
    /\ pc = [r \in Handlers |-> "idle"]
    /\ req = [r \in Handlers |-> NoRequest]
    /\ local = [r \in Handlers |-> NoLocals]
    /\ hist = [r \in Handlers |-> NoHistory]
    /\ fs = << >>
    /\ cache = (Key("PREPROCESSED", PyStr("s1"), "ref1") :> CachedAudio("ref1"))
    /\ stolen = {}

SpecConcurrent == InitConcurrent /\ [][Next]_vars

(***************************************************************************)
(* The properties of the service.                                          *)
(***************************************************************************)
Done(r) == pc[r] = "done"

Has(argv, flag) == Positions(argv, flag) # {}

\* every occurrence of the flag is immediately followed by the value
FollowedBy(argv, flag, value) ==
    \A i \in Positions(argv, flag) : i < Len(argv) /\ argv[i + 1] = value

\* the request fails the schema in one of the ways the service documents: the
\* text is missing, the noise is no number, the style blend is outside [0, 1],
\* the diffusion steps are below 1
BadBody(b) ==
    \/ b.UserText = Missing
    \/ b.Noise.t \notin {"integer", "float"}
    \/ Tenths(b.StyleBlend) < 0 \/ Tenths(b.StyleBlend) > 10
    \/ b.DiffusionSteps.n < 1

\* C1: a request whose body fails the schema is answered 400 and, during it,
\* the inference process is not launched, the cache is neither read nor
\* written and no temporary file is created.
C1_InvalidIs400 ==
    \A r \in Handlers :
        Done(r) /\ BadBody(req[r]) =>
            /\ local[r].code = 400
            /\ hist[r].step = "parse_inputs"
            /\ hist[r].launches = << >>
            /\ hist[r].cacheReads = 0
            /\ hist[r].cacheWrites = << >>
            /\ hist[r].created = {}

C1_Witness ==
    \E r \in Handlers :
        Done(r) /\ Tenths(req[r].StyleBlend) > 10 /\ local[r].code = 400

\* C2: whatever step a request handled alone ends in, both temporary folders
\* are empty at the moment of its response.
C2_FoldersEmptyAtResponse ==
    \A r \in Handlers : Done(r) => DOMAIN fs = {}

\* C3: a request answered 200 wrote the cache exactly once, at (OUTPUT, its
\* session id, its output file), with the audio read from
\* OUTPUT_COPY_FOLDER/<Output File>.wav, and the cache holds it.
C3_OneWriteAtOutputKey ==
    \A r \in Handlers :
        LET key == <<"OUTPUT", req[r].SessionID, req[r].OutputFile.s>>
            file == OUTPUT_COPY_FOLDER \o "/" \o req[r].OutputFile.s \o ".wav"
        IN  /\ pc[r] = "clean_up" =>
                /\ file \in DOMAIN fs
                /\ hist[r].cacheWrites = <<[key |-> key, audio |-> fs[file]]>>
            /\ Done(r) /\ local[r].code = 200 =>
                /\ Len(hist[r].cacheWrites) = 1
                /\ hist[r].cacheWrites[1].key = key
                /\ key \in DOMAIN cache
                /\ cache[key] = hist[r].cacheWrites[1].audio
                /\ \A k \in DOMAIN cache : k[1] = "OUTPUT" /\ k # key =>
                        cache[k].id # hist[r].id

C3_Witness ==
    \E r \in Handlers :
        Done(r) /\ local[r].code = 200 /\ hist[r].procWrote /\ req[r].SessionID = None

\* the body holds the required keys only
RequiredOnly(b) == \A f \in Fields : b[f] = Missing <=> ~schema[f].required

\* C4: a valid request with the required keys only, for a voice with one
\* weights file, one config file and no style file, whose inference process
\* writes the output, is answered 200 with an empty message, its audio is in
\* the cache and the process was launched once with the eight flags, each once
\* and followed by its value.
C4_RequiredOnlySucceeds ==
    \A r \in Handlers :
        LET b == req[r]
            dir == character_dir("styletts_2", "voiceA")
        IN  /\ Done(r)
            /\ RequiredOnly(b)
            /\ b.Character = PyStr("voiceA")
            /\ hist[r].fault = "none"
            /\ (hist[r].launches # << >> => hist[r].procWrote)
            => /\ local[r].code = 200
               /\ local[r].message = ""
               /\ <<"OUTPUT", b.SessionID, b.OutputFile.s>> \in DOMAIN cache
               /\ hist[r].launches =
                    << <<"--text", b.UserText.s,
                         "--weights_file", dir \o "/a.pth",
                         "--config_file", dir \o "/config.yml",
                         "--output_filepath", OUTPUT_COPY_FOLDER \o "/" \o b.OutputFile.s \o ".wav",
                         "--noise", str(b.Noise),
                         "--style_blend", str(b.StyleBlend),
                         "--diffusion_steps", str(b.DiffusionSteps),
                         "--embedding_scale", str(b.EmbeddingScale)>> >>

\* C5: a request is answered 200 exactly when it wrote the output cache entry.
C5_OkIffCacheWritten ==
    \A r \in Handlers :
        Done(r) => (local[r].code = 200 <=> hist[r].cacheWrites # << >>)

\* the number of weights files of a voice
Weights(character) ==
    Cardinality({i \in DOMAIN VoiceDirs[character] : VoiceDirs[character][i].ext = ".pth"})

\* C6: a valid request for a voice with no weights file or with several is
\* answered 500, without a launch of the inference process and without a
\* cache write.
C6_BadWeightsIs500 ==
    \A r \in Handlers :
        Done(r) /\ ~BadBody(req[r]) /\ Weights(req[r].Character.s) # 1 =>
            /\ local[r].code = 500
            /\ hist[r].launches = << >>
            /\ hist[r].cacheWrites = << >>

C6_Witness ==
    \E r \in Handlers :
        /\ Done(r)
        /\ Weights(req[r].Character.s) > 1
        /\ hist[r].step = "execute_program"
        /\ local[r].code = 500

\* the style files of a voice
StyleFiles(character) ==
    {character_dir("styletts_2", character) \o "/" \o f.stem \o f.ext :
        f \in {VoiceDirs[character][i] : i \in {j \in DOMAIN VoiceDirs[character] :
                                                  VoiceDirs[character][j].ext = ".json"}}}

\* C7: no argument list holds both --reference_audio and --reference_style;
\* with reference audio enabled the voice's style file is not passed, and with
\* it disabled a voice's style file is passed and no reference audio is.
C7_ReferenceOrStyle ==
    \A r \in Handlers :
        \A n \in DOMAIN hist[r].launches :
            LET argv == hist[r].launches[n]
                styles == StyleFiles(req[r].Character.s)
            IN  /\ ~(Has(argv, "--reference_audio") /\ Has(argv, "--reference_style"))
                /\ req[r].EnableReferenceAudio = PyBool(TRUE) =>
                        ~Has(argv, "--reference_style")
                /\ req[r].EnableReferenceAudio = PyBool(FALSE) /\ styles # {} =>
                        /\ Has(argv, "--reference_style")
                        /\ \E style \in styles : FollowedBy(argv, "--reference_style", style)
                        /\ ~Has(argv, "--reference_audio")

C7_Witness ==
    \E r \in Handlers :
        /\ hist[r].launches # << >>
        /\ req[r].EnableReferenceAudio = PyBool(TRUE)
        /\ StyleFiles(req[r].Character.s) # {}
        /\ Has(hist[r].launches[1], "--reference_audio")
        /\ local[r].reference_audio # None

\* C8: in every argument list an optional flag is present only if its value
\* was provided, and every flag that takes a value is immediately followed by
\* its own value.
C8_FlagsHaveValues ==
    \A r \in Handlers :
        \A n \in DOMAIN hist[r].launches :
            LET argv == hist[r].launches[n]
                b == req[r]
            IN  /\ FollowedBy(argv, "--text", b.UserText.s)
                /\ FollowedBy(argv, "--output_filepath",
                              OUTPUT_COPY_FOLDER \o "/" \o b.OutputFile.s \o ".wav")
                /\ FollowedBy(argv, "--noise", str(b.Noise))
                /\ FollowedBy(argv, "--style_blend", str(b.StyleBlend))
                /\ FollowedBy(argv, "--diffusion_steps", str(b.DiffusionSteps))
                /\ FollowedBy(argv, "--embedding_scale", str(b.EmbeddingScale))
                /\ FollowedBy(argv, "--timbre_ref_blend", str(b.TimbreReferenceBlend))
                /\ FollowedBy(argv, "--prosody_ref_blend", str(b.ProsodyReferenceBlend))
                /\ Has(argv, "--reference_audio") =>
                        /\ b.UserAudio.t = "string"
                        /\ FollowedBy(argv, "--reference_audio",
                                      INPUT_COPY_FOLDER \o "/" \o b.UserAudio.s \o ".wav")

\* C9: with two requests in flight, a request with valid inputs whose inference
\* process wrote its output, and that met no failure of its own, is answered
\* 500 for a missing output file only when the other request's clean_up
\* deleted that file; and that happens.
C9_FailsOnlyByTheft ==
    \A r \in Handlers :
        /\ Done(r)
        /\ local[r].code = 500
        /\ hist[r].procWrote
        /\ hist[r].fault = "none"
        => \E t \in stolen :
                /\ t.owner = hist[r].id
                /\ t.by # hist[r].id
                /\ t.path = OUTPUT_COPY_FOLDER \o "/" \o req[r].OutputFile.s \o ".wav"

C9_Witness ==
    \E r \in Handlers :
        /\ Done(r)
        /\ local[r].code = 500
        /\ ~BadBody(req[r])
        /\ hist[r].procWrote
        /\ hist[r].fault = "none"
        /\ hist[r].step = "copy_output"
        /\ \E t \in stolen : t.owner = hist[r].id /\ t.by # hist[r].id

\* C10: handled one at a time, a request answered 200 stored the audio its own
\* inference process wrote, and a request whose process wrote no output file
\* is answered 500.
C10_StoresOwnAudio ==
    \A r \in Handlers :
        Done(r) =>
            /\ local[r].code = 200 =>
                    \A n \in DOMAIN hist[r].cacheWrites :
                        hist[r].cacheWrites[n].audio = [made |-> "inference", id |-> hist[r].id]
            /\ hist[r].launches # << >> /\ ~hist[r].procWrote => local[r].code = 500

====
